---- MODULE Spec2Model ----
(***************************************************************************)
(* Verification model of the two training scripts of scDDPM/transformer:   *)
(*   Demo01/predict_odd_numbers.py          ("Script 1", program "demo01") *)
(*   ViT/VisionTransformer_MNIST_query_key.py ("Script 2", program "vit")  *)
(* plus the pure tensor-layout function img_to_patch of Script 2.          *)
(*                                                                         *)
(* Abstractions.  Model weights are identified by <<base, steps>>: the     *)
(* weights they were initialised from (0 = fresh random initialisation,    *)
(* k > 0 = the contents of user file k) and the number of optimizer steps  *)
(* applied since.  Losses are integers: Script 1 losses are in units of    *)
(* 1e-6, Script 2 losses in units of 1.  The value a forward pass yields   *)
(* (a loss, an argmax token) is a nondeterministic choice.  The file       *)
(* system is a function from paths to the weights stored there.            *)
(***************************************************************************)
EXTENDS Integers, Sequences, FiniteSets, TLC

VARIABLES
    program,        \* which script runs: "demo01", "vit" or "patch"
    pc,             \* position of the script
    fs,             \* file system: path -> stored weights
    raisedAt,       \* source line of the uncaught exception that ended the run (0: none)
    valDone,        \* history: validation batches (Script 1) or passes (Script 2) done
    \* ---- Script 1 -------------------------------------------------------
    test_model,     \* args.test_model
    train_model,    \* args.train_model
    mainCalls,      \* number of calls of main
    mainArg,        \* model_name argument main was called with
    model_name,     \* main's local model_name
    weights,        \* the model trained in main
    best_loss,      \* main's best_loss
    epoch_i,        \* main's loop variable i (epochs completed)
    batch,          \* batches done in the running train()/validation() pass
    epoch_loss_val, \* last value returned by validation()
    final_name,     \* top-level model_name (line 116/118/120)
    loaded,         \* weights loaded into the top-level model (line 122)
    loads,          \* sequence of paths passed to load()
    numSaves,       \* history: number of save() calls
    lastSave,       \* history: <<epoch, path>> of the last save() call
    minSeen,        \* history: least validation loss observed (or the initial best)
    minEpoch,       \* history: first epoch that observed minSeen (-1: none)
    trial,          \* test(): loop variable i
    dec_j,          \* test(): loop variable j
    cpu_src,        \* test(): cpu_src
    tgt,            \* test(): tgt
    pred,           \* test(): pred
    modelCalls,     \* test(): model(src, inp) calls in the running trial
    lastInp,        \* test(): decoder input of the last model call
    \* ---- Script 2 -------------------------------------------------------
    epoch,          \* loop variable of the training loop (epochs completed)
    params,         \* optimizer steps applied to the model
    lossi,          \* number of entries of the list lossi
    last_epoch,     \* model_scheduler.last_epoch
    lr,             \* learning rate of model_optimizer, in units of 1e-6
    avg_vloss,      \* last avg_vloss
    best_vloss,     \* best_vloss
    model_path,     \* model_path
    plotRows,       \* rows of lossi.view(-1, 3) (-1: not plotted)
    evalParams,     \* parameters the test evaluation ran with (-1: not run)
    vizPatches,     \* shape of patches_k (line 321)
    \* ---- img_to_patch ---------------------------------------------------
    px,             \* the tensor x of img_to_patch: [shape, data]
    pin,            \* the input tensor
    psize,          \* patch_size
    pflat           \* flatten_channels

vars == <<program, pc, fs, raisedAt, valDone, test_model, train_model, mainCalls, mainArg, model_name,
          weights, best_loss, epoch_i, batch, epoch_loss_val, final_name, loaded,
          loads, numSaves, lastSave, minSeen, minEpoch, trial, dec_j, cpu_src, tgt, pred,
          modelCalls, lastInp, epoch, params, lossi, last_epoch, lr, avg_vloss,
          best_vloss, model_path, plotRows, evalParams, vizPatches, px, pin, psize,
          pflat>>

vars1 == <<test_model, train_model, mainCalls, mainArg, model_name,
           weights, best_loss, epoch_i, batch, epoch_loss_val, final_name, loaded,
           loads, numSaves, lastSave, minSeen, minEpoch, trial, dec_j, cpu_src, tgt, pred,
           modelCalls, lastInp>>

vars2 == <<epoch, params, lossi, last_epoch, lr, avg_vloss, best_vloss, model_path,
           plotRows, evalParams, vizPatches>>

varsP == <<px, pin, psize, pflat>>

varsG == <<raisedAt, valDone>>

(***************************************************************************)
(* Bounds of the model                                                     *)
(***************************************************************************)
MaxPaths == 2        \* distinct user-supplied model files
TrainBatches1 == 2   \* len(train_loader) of Script 1
ValBatches1 == 2     \* len(val_loader) of Script 1
LossLevels == 4      \* distinct values a validation loss can take
MaxTok == 1          \* argmax tokens are 0..MaxTok
MaxS == 1            \* random.randint(1, 4998) draws from 1..MaxS
MaxB == 2            \* img_to_patch: batch sizes 1..MaxB
MaxC == 2            \* img_to_patch: channel counts 1..MaxC
MaxGrid == 4         \* img_to_patch: 1..MaxGrid patches per image side

(***************************************************************************)
(* Paths and the file system                                               *)
(***************************************************************************)
None == <<"none", 0>>
UserPath(k) == <<"user", k>>
UserPaths == {UserPath(k) : k \in 1..MaxPaths}
Fresh == <<0, 0>>
NoFiles == [p \in {} |-> Fresh]
NoTensor == [shape |-> <<>>, data |-> <<>>]

\* torch.load(path): the stored weights, or failure when nothing loadable is
\* there (load(None) always fails).
CanLoad(path) == path \in DOMAIN fs

RaiseOr_Swallowed(ok, next) == next

\* No statement is wrapped in try/except: when an operation fails the
\* exception is uncaught and the process ends; otherwise the script goes on.
RaiseOr(ok, next) == IF ok THEN next ELSE "error"

\* torch.save(content, path): creates or overwrites the file.
Saved(files, path, content) ==
    [p \in DOMAIN files \cup {path} |-> IF p = path THEN content ELSE files[p]]

(***************************************************************************)
(* Script 1: predict_odd_numbers.py                                        *)
(***************************************************************************)
epochs == 100        \* main: epochs
max_len == 3         \* test: default max_len
test_times == 10     \* test(model, test_times=10)

\* best_loss = 40, in units of 1e-6
BestLossInit1 == 40 * 1000000

\* The validation losses the model draws from: two levels below the initial
\* best, the initial best itself, and levels above it.
Losses1 == {BestLossInit1 - 4 + 2 * k : k \in 0..(LossLevels - 1)}

\* "{0:.5f}".format(loss): the loss (units of 1e-6) rounded to 5 decimals
\* (units of 1e-5), ties to even.
Format5(loss) ==
    LET q == loss \div 10
        r == loss % 10
    IN  IF r > 5 \/ (r = 5 /\ q % 2 = 1) THEN q + 1 ELSE q

\* "model/model_{0:.5f}.pt".format(epoch_loss_val)
CkptName1(loss) == <<"ckpt", Format5(loss)>>

Improves_OrEqual(loss, best) == loss <= best

\* if epoch_loss_val < best_loss
Improves(loss, best) == loss < best

Tokens == 0..MaxTok

\* Variables of a part that does not run keep these values.
Idle1 ==
    /\ test_model = None
    /\ train_model = None
    /\ mainCalls = 0
    /\ mainArg = None
    /\ model_name = None
    /\ weights = Fresh
    /\ best_loss = 0
    /\ epoch_i = 0
    /\ batch = 0
    /\ epoch_loss_val = 0
    /\ final_name = None
    /\ loaded = Fresh
    /\ loads = <<>>
    /\ trial = 0
    /\ dec_j = 0
    /\ cpu_src = <<>>
    /\ tgt = <<>>
    /\ pred = <<>>
    /\ modelCalls = 0
    /\ lastInp = <<>>

Idle2 ==
    /\ epoch = 0
    /\ params = 0
    /\ lossi = 0
    /\ last_epoch = 0
    /\ lr = 0
    /\ avg_vloss = 0
    /\ best_vloss = 0
    /\ model_path = None
    /\ plotRows = -1
    /\ evalParams = -1
    /\ vizPatches = <<>>

IdleP ==
    /\ px = NoTensor
    /\ pin = NoTensor
    /\ psize = 0
    /\ pflat = FALSE

Init1 ==
    /\ raisedAt = 0
    /\ valDone = 0
    /\ program = "demo01"
    /\ pc = "start"
    /\ test_model \in UserPaths \cup {None}
    /\ train_model \in UserPaths \cup {None}
    /\ \E present \in SUBSET ({test_model, train_model} \ {None}) :
          fs = [p \in present |-> <<p[2], 0>>]
    /\ mainCalls = 0
    /\ mainArg = None
    /\ model_name = None
    /\ weights = Fresh
    /\ best_loss = BestLossInit1
    /\ epoch_i = 0
    /\ batch = 0
    /\ epoch_loss_val = 0
    /\ final_name = None
    /\ loaded = Fresh
    /\ loads = <<>>
    /\ numSaves = 0
    /\ lastSave = <<-1, None>>
    /\ minSeen = BestLossInit1
    /\ minEpoch = -1
    /\ trial = 0
    /\ dec_j = 0
    /\ cpu_src = <<>>
    /\ tgt = <<>>
    /\ pred = <<>>
    /\ modelCalls = 0
    /\ lastInp = <<>>
    /\ Idle2
    /\ IdleP

RunsMain_TrainModelWins == test_model = None \/ train_model # None

\* line 114: if args.test_model is None
RunsMain == test_model = None

LoopContinues_OneShort(i) == i + 1 < epochs - 1

\* line 88: for i in range(epochs), after epoch i
LoopContinues(i) == i + 1 < epochs

DecoderInput_LastOnly(p) == <<p[Len(p)]>>

\* line 53: inp = LongTensor(pred)
DecoderInput(p) == p

\* __main__, lines 114-120: main runs only when --test_model is absent.
Dispatch ==
    /\ program = "demo01" /\ pc = "start"
    /\ IF RunsMain
       THEN /\ mainCalls' = mainCalls + 1
            /\ mainArg' = train_model
            /\ model_name' = train_model
            /\ pc' = "main_load"
            /\ UNCHANGED final_name
       ELSE /\ final_name' = test_model
            /\ pc' = "final_load"
            /\ UNCHANGED <<mainCalls, mainArg, model_name>>
    /\ UNCHANGED <<program, fs, test_model, train_model, weights, best_loss, epoch_i,
                   batch, epoch_loss_val, loaded, loads, numSaves, lastSave, minSeen, minEpoch,
                   trial, dec_j, cpu_src, tgt, pred, modelCalls, lastInp>>
    /\ UNCHANGED vars2 /\ UNCHANGED varsP
    /\ UNCHANGED varsG

\* main, lines 79-87: build the model, load the initial weights when a
\* model_name was given (an uncaught error when the load fails).
MainLoad ==
    /\ program = "demo01" /\ pc = "main_load"
    /\ IF model_name = None
       THEN /\ weights' = Fresh
            /\ pc' = "train"
            /\ UNCHANGED loads
       ELSE /\ loads' = Append(loads, model_name)
            /\ weights' = IF CanLoad(model_name) THEN fs[model_name] ELSE weights
            /\ pc' = RaiseOr(CanLoad(model_name), "train")
    /\ raisedAt' = IF pc' = "error" THEN 81 ELSE raisedAt
    /\ best_loss' = BestLossInit1
    /\ epoch_i' = 0
    /\ batch' = 0
    /\ UNCHANGED <<program, fs, test_model, train_model, mainCalls, mainArg,
                   model_name, epoch_loss_val, final_name, loaded, numSaves, lastSave, minSeen,
                   minEpoch, trial, dec_j, cpu_src, tgt, pred, modelCalls, lastInp>>
    /\ UNCHANGED vars2 /\ UNCHANGED varsP
    /\ UNCHANGED valDone

\* train, lines 14-24: one batch, one optimizer step; the pass returns after
\* the last batch of the loader.
TrainBatch1 ==
    /\ program = "demo01" /\ pc = "train"
    /\ batch < TrainBatches1
    /\ weights' = <<weights[1], weights[2] + 1>>
    /\ IF batch + 1 = TrainBatches1
       THEN batch' = 0 /\ pc' = "validate"
       ELSE batch' = batch + 1 /\ pc' = "train"
    /\ UNCHANGED <<program, fs, test_model, train_model, mainCalls, mainArg,
                   model_name, best_loss, epoch_i, epoch_loss_val, final_name,
                   loaded, loads, numSaves, lastSave, minSeen, minEpoch, trial, dec_j, cpu_src,
                   tgt, pred, modelCalls, lastInp>>
    /\ UNCHANGED vars2 /\ UNCHANGED varsP
    /\ UNCHANGED varsG

\* validation, lines 32-39: one batch without gradient; after the last batch
\* the mean loss is returned into epoch_loss_val (line 92).
ValBatch1 ==
    /\ program = "demo01" /\ pc = "validate"
    /\ batch < ValBatches1
    /\ IF batch + 1 = ValBatches1
       THEN /\ batch' = 0
            /\ pc' = "checkpoint"
            /\ \E loss \in Losses1 :
                  /\ epoch_loss_val' = loss
                  /\ IF loss < minSeen
                     THEN minSeen' = loss /\ minEpoch' = epoch_i
                     ELSE UNCHANGED <<minSeen, minEpoch>>
       ELSE /\ batch' = batch + 1
            /\ pc' = "validate"
            /\ UNCHANGED <<epoch_loss_val, minSeen, minEpoch>>
    /\ UNCHANGED <<program, fs, test_model, train_model, mainCalls, mainArg,
                   model_name, weights, best_loss, epoch_i, final_name,
                   loaded, loads, numSaves, lastSave, trial, dec_j, cpu_src,
                   tgt, pred, modelCalls, lastInp>>
    /\ UNCHANGED vars2 /\ UNCHANGED varsP
    /\ valDone' = valDone + 1
    /\ UNCHANGED raisedAt

\* main, lines 96-99 and the loop header of line 88.
Checkpoint1 ==
    /\ program = "demo01" /\ pc = "checkpoint"
    /\ IF Improves(epoch_loss_val, best_loss)
       THEN /\ best_loss' = epoch_loss_val
            /\ model_name' = CkptName1(epoch_loss_val)
            /\ fs' = Saved(fs, CkptName1(epoch_loss_val), weights)
            /\ numSaves' = numSaves + 1
            /\ lastSave' = <<epoch_i, CkptName1(epoch_loss_val)>>
       ELSE UNCHANGED <<best_loss, model_name, fs, numSaves, lastSave>>
    /\ epoch_i' = epoch_i + 1
    /\ pc' = IF LoopContinues(epoch_i) THEN "train" ELSE "main_return"
    /\ UNCHANGED <<program, test_model, train_model, mainCalls, mainArg, weights,
                   batch, epoch_loss_val, final_name, loaded, loads, minSeen,
                   minEpoch, trial, dec_j, cpu_src, tgt, pred, modelCalls, lastInp>>
    /\ UNCHANGED vars2 /\ UNCHANGED varsP
    /\ UNCHANGED varsG

\* main, line 100, and the assignment of lines 116/118.  The locals best_loss
\* and epoch_loss_val of main's frame cease to exist on return.
MainReturn ==
    /\ program = "demo01" /\ pc = "main_return"
    /\ final_name' = model_name
    /\ pc' = "final_load"
    /\ best_loss' = BestLossInit1
    /\ epoch_loss_val' = 0
    /\ UNCHANGED <<program, fs, test_model, train_model, mainCalls, mainArg,
                   model_name, weights, epoch_i, batch,
                   loaded, loads, numSaves, lastSave, minSeen, minEpoch, trial, dec_j, cpu_src,
                   tgt, pred, modelCalls, lastInp>>
    /\ UNCHANGED vars2 /\ UNCHANGED varsP
    /\ UNCHANGED varsG

\* __main__, lines 121-122: load the model for the test (uncaught error when
\* the load fails), then enter test (line 123).
FinalLoad ==
    /\ program = "demo01" /\ pc = "final_load"
    /\ loads' = Append(loads, final_name)
    /\ loaded' = IF CanLoad(final_name) THEN fs[final_name] ELSE loaded
    /\ pc' = RaiseOr(CanLoad(final_name), "trial")
    /\ raisedAt' = IF pc' = "error" THEN 122 ELSE raisedAt
    /\ trial' = 0
    /\ UNCHANGED <<program, fs, test_model, train_model, mainCalls, mainArg,
                   model_name, weights, best_loss, epoch_i, batch, epoch_loss_val,
                   final_name, numSaves, lastSave, minSeen, minEpoch, dec_j, cpu_src,
                   tgt, pred, modelCalls, lastInp>>
    /\ UNCHANGED vars2 /\ UNCHANGED varsP
    /\ UNCHANGED valDone

\* test, lines 46-51: start of one trial, or the end of the loop.
TrialStart ==
    /\ program = "demo01" /\ pc = "trial"
    /\ IF trial < test_times
       THEN \E s \in 1..MaxS :
              /\ cpu_src' = [j \in 1..max_len |-> (s + (j - 1)) * 2]
              /\ tgt' = <<0>> \o [j \in 1..max_len |-> (s + (j - 1)) * 2 + 1]
              /\ pred' = <<0>>
              /\ dec_j' = 0
              /\ modelCalls' = 0
              /\ lastInp' = <<>>
              /\ pc' = "decode"
       ELSE /\ pc' = "done"
            /\ UNCHANGED <<cpu_src, tgt, pred, dec_j, modelCalls, lastInp>>
    /\ UNCHANGED <<program, fs, test_model, train_model, mainCalls, mainArg,
                   model_name, weights, best_loss, epoch_i, batch, epoch_loss_val,
                   final_name, loaded, loads, numSaves, lastSave, minSeen, minEpoch, trial>>
    /\ UNCHANGED vars2 /\ UNCHANGED varsP
    /\ UNCHANGED varsG

\* test, lines 52-56: one greedy decoding step.
DecodeStep ==
    /\ program = "demo01" /\ pc = "decode"
    /\ dec_j < max_len
    /\ lastInp' = DecoderInput(pred)
    /\ modelCalls' = modelCalls + 1
    /\ \E out_num \in Tokens : pred' = Append(pred, out_num)
    /\ dec_j' = dec_j + 1
    /\ pc' = IF dec_j + 1 < max_len THEN "decode" ELSE "print"
    /\ UNCHANGED <<program, fs, test_model, train_model, mainCalls, mainArg,
                   model_name, weights, best_loss, epoch_i, batch, epoch_loss_val,
                   final_name, loaded, loads, numSaves, lastSave, minSeen, minEpoch, trial,
                   cpu_src, tgt>>
    /\ UNCHANGED vars2 /\ UNCHANGED varsP
    /\ UNCHANGED varsG

\* test, lines 57-59: print the trial and continue the loop of line 46.
PrintTrial ==
    /\ program = "demo01" /\ pc = "print"
    /\ trial' = trial + 1
    /\ pc' = "trial"
    /\ UNCHANGED <<program, fs, test_model, train_model, mainCalls, mainArg,
                   model_name, weights, best_loss, epoch_i, batch, epoch_loss_val,
                   final_name, loaded, loads, numSaves, lastSave, minSeen, minEpoch, dec_j,
                   cpu_src, tgt, pred, modelCalls, lastInp>>
    /\ UNCHANGED vars2 /\ UNCHANGED varsP
    /\ UNCHANGED varsG

Next1 ==
    \/ Dispatch
    \/ MainLoad
    \/ TrainBatch1
    \/ ValBatch1
    \/ Checkpoint1
    \/ MainReturn
    \/ FinalLoad
    \/ TrialStart
    \/ DecodeStep
    \/ PrintTrial

Spec1 == Init1 /\ [][Next1]_vars

(***************************************************************************)
(* Properties of Script 1                                                  *)
(***************************************************************************)
InMain == pc \in {"main_load", "train", "validate", "checkpoint", "main_return"}
InTest == pc \in {"trial", "decode", "print", "done"}
FinalLoadDone == InTest \/ raisedAt = 122
Last(q) == q[Len(q)]

\* C1: main runs if and only if --test_model is absent.  With --test_model:
\* main is never called, nothing is saved, --train_model is never loaded and
\* the only load is the final one, of the --test_model path.  Without it:
\* main is called exactly once, its argument is --train_model (None when
\* absent), training starts from the weights of that file or from a fresh
\* model, and the final load is of the path main returned.
C1_TrainingIffNoTestModel ==
    program = "demo01" =>
      /\ (test_model # None =>
            /\ mainCalls = 0 /\ ~InMain /\ epoch_i = 0 /\ weights = Fresh
            /\ numSaves = 0 /\ DOMAIN fs \subseteq UserPaths
            /\ \A k \in 1..Len(loads) : loads[k] = test_model
            /\ (pc # "start" => final_name = test_model)
            /\ (FinalLoadDone => loads = <<test_model>>))
      /\ (test_model = None /\ pc # "start" =>
            /\ mainCalls = 1
            /\ mainArg = train_model
            /\ (train_model = None /\ pc # "main_load" => weights[1] = 0)
            /\ (train_model # None /\ pc # "main_load" =>
                  /\ loads[1] = train_model
                  /\ (raisedAt # 81 => weights[1] = train_model[2]))
            /\ (FinalLoadDone =>
                  /\ final_name = model_name
                  /\ Last(loads) = model_name
                  /\ Len(loads) = IF train_model = None THEN 1 ELSE 2))

C1_Witness ==
    /\ program = "demo01" /\ pc = "done"
    /\ test_model = None /\ train_model # None
    /\ mainCalls = 1 /\ numSaves > 0

C5_FailedLoadEndsRun ==
    /\ [](program = "demo01" =>
          /\ \A k \in 1..Len(loads) :
                ~CanLoad(loads[k]) => (k = Len(loads) /\ pc = "error")
          /\ (pc = "error" <=> raisedAt \in {81, 122})
          /\ (raisedAt \in {81, 122} => ~CanLoad(Last(loads)))
          /\ (raisedAt = 81 =>
                /\ loads = <<train_model>> /\ test_model = None
                /\ epoch_i = 0 /\ weights = Fresh /\ valDone = 0 /\ numSaves = 0)
          /\ (raisedAt = 122 => Last(loads) = final_name)
          /\ (pc = "error" =>
                trial = 0 /\ modelCalls = 0 /\ pred = <<>> /\ loaded = Fresh))
    /\ [][pc = "error" => pc' = "error"]_vars
    /\ [][pc # "error"]_vars

C5_Witness ==
    /\ program = "demo01" /\ pc = "error" /\ raisedAt = 122
    /\ test_model = None /\ final_name = None /\ epoch_i = epochs

\* C7: greedy autoregressive decoding.  A trial starts with pred = [0]; the
\* j-th model call gets the whole of pred, of length j + 1, and appends one
\* token to it, leaving the earlier elements as they were; after max_len
\* calls pred has max_len + 1 elements, like tgt, and still starts with 0.
C7_GreedyDecoding ==
    /\ [](program = "demo01" =>
          /\ (pc = "decode" =>
                /\ dec_j < max_len
                /\ modelCalls = dec_j
                /\ Len(pred) = dec_j + 1
                /\ pred[1] = 0
                /\ (dec_j = 0 => pred = <<0>>)
                /\ (dec_j > 0 => lastInp = SubSeq(pred, 1, dec_j)))
          /\ (pc = "print" =>
                /\ modelCalls = max_len
                /\ Len(lastInp) = max_len
                /\ Len(pred) = max_len + 1
                /\ pred[1] = 0
                /\ Len(tgt) = Len(pred)
                /\ tgt[1] = 0))
    /\ [][(program = "demo01" /\ pc = "decode") =>
            /\ lastInp' = pred
            /\ Len(lastInp') = dec_j + 1
            /\ modelCalls' = modelCalls + 1
            /\ Len(pred') = Len(pred) + 1
            /\ SubSeq(pred', 1, Len(pred)) = pred
            /\ Last(pred') \in Tokens]_vars

C7_Witness ==
    /\ program = "demo01" /\ pc = "print" /\ trial = test_times - 1
    /\ Len(pred) = max_len + 1 /\ pred[max_len + 1] # 0

\* C10: when main has returned, the returned path is that of the last save,
\* the last save was made in the first epoch that reached the least
\* validation loss of the run, and the file holds the weights as they were
\* after that epoch's training pass; the final load reads exactly these
\* weights.  When no epoch reached a validation loss below 40 nothing was
\* saved and the returned path is main's argument.  (The same holds of
\* model_name between the epochs of main, of the epochs run so far.)
C10_ReturnsBestCheckpoint ==
    (program = "demo01" /\ test_model = None) =>
      /\ (pc \in {"train", "validate", "main_return"} =>
            /\ (numSaves > 0 =>
                  /\ model_name = lastSave[2]
                  /\ lastSave[1] = minEpoch
                  /\ fs[model_name] = <<weights[1], (minEpoch + 1) * TrainBatches1>>)
            /\ (numSaves = 0 => model_name = mainArg /\ minEpoch = -1))
      /\ (pc = "final_load" \/ FinalLoadDone =>
            /\ (numSaves > 0 =>
                  /\ final_name = lastSave[2]
                  /\ lastSave[1] = minEpoch
                  /\ minSeen < BestLossInit1
                  /\ CanLoad(final_name)
                  /\ fs[final_name] = <<weights[1], (minEpoch + 1) * TrainBatches1>>
                  /\ (InTest => loaded = fs[final_name]))
            /\ (numSaves = 0 =>
                  /\ minSeen = BestLossInit1 /\ minEpoch = -1
                  /\ final_name = mainArg /\ mainArg = train_model
                  /\ DOMAIN fs \subseteq UserPaths))

C10_Witness ==
    /\ program = "demo01" /\ test_model = None /\ pc = "done"
    /\ numSaves = 2 /\ minEpoch < epochs - 1
    /\ loaded # weights

(***************************************************************************)
(* Script 2: VisionTransformer_MNIST_query_key.py                          *)
(***************************************************************************)
train_size == 50000       \* random_split(train_dataset, [50000, 10000])
batch_size == 32          \* DataLoader(dataset=train_set, batch_size=32, ...)
epochs2 == 20             \* for epoch in range(20)
view_cols == 3            \* torch.tensor(lossi).view(-1, 3)
milestone1 == 100         \* MultiStepLR(milestones=[100, 150], ...)
milestone2 == 150
gamma_div == 10           \* gamma=0.1: the learning rate is divided by 10
base_lr == 300            \* lr=3e-4, in units of 1e-6
BestVlossInit == 1000000  \* best_vloss = 1_000_000
image_size == 28
patch_size == 7
num_patches == 16
num_channels == 1

\* The validation losses the model draws from: two levels below the initial
\* best, the initial best itself, and levels above it.
Losses2 == {BestVlossInit - 2 + k : k \in 0..(LossLevels - 1)}

BatchCount_DropLast(n, bs) == n \div bs

\* The number of batches a DataLoader without drop_last yields over n
\* samples: full batches of bs samples and a last, smaller one for the
\* remainder, ceil(n / bs) in all.
BatchCount(n, bs) == (n + bs - 1) \div bs

\* MultiStepLR: the learning rate after the scheduler has been stepped
\* `stepped` times is base_lr * gamma ^ (number of milestones <= stepped).
LrAt(stepped) ==
    IF stepped >= milestone2 THEN (base_lr \div gamma_div) \div gamma_div
    ELSE IF stepped >= milestone1 THEN base_lr \div gamma_div
    ELSE base_lr

\* './model_VisionTransformer_MNIST_{}.pt'.format(epoch+1)
CkptName2(ep) == <<"vit", ep + 1>>

Improves2_OrEqual(loss, best) == loss <= best

\* if avg_vloss < best_vloss
Improves2(loss, best) == loss < best

(***************************************************************************)
(* Tensors: a shape and the elements in row-major (logical) order.         *)
(***************************************************************************)
RECURSIVE Prod(_)
Prod(sh) == IF sh = <<>> THEN 1 ELSE Head(sh) * Prod(Tail(sh))

\* number of elements one step along dimension k spans
Stride(sh, k) == Prod(SubSeq(sh, k + 1, Len(sh)))

Strides(sh) == [k \in 1..Len(sh) |-> Stride(sh, k)]

\* sum of idx[k] * st[k] over the dimensions k..Len(st)
RECURSIVE Dot(_, _, _)
Dot(idx, st, k) == IF k > Len(st) THEN 0 ELSE idx[k] * st[k] + Dot(idx, st, k + 1)

\* flat offset (0-based) -> multi-index (0-based), and back
Unravel(n, sh) == [k \in 1..Len(sh) |-> (n \div Stride(sh, k)) % sh[k]]

Ravel(idx, sh) == Dot(idx, Strides(sh), 1)

At(t, idx) == t.data[Ravel(idx, t.shape) + 1]

\* x.reshape(*sh): same elements in the same order under a new shape
Reshape(t, sh) == [shape |-> sh, data |-> t.data]

\* x.permute(*perm): dimension k of the result is dimension perm[k] of x
\* (perm is 1-based here: torch's (0, 2, 4, 1, 3, 5) is <<1, 3, 5, 2, 4, 6>>),
\* so element m of the result is the element of x whose index along
\* dimension perm[k] is m[k].
Permute(t, perm) ==
    LET sh == [k \in 1..Len(perm) |-> t.shape[perm[k]]]
        nst == Strides(sh)
        ost == Strides(t.shape)
        pst == [k \in 1..Len(perm) |-> ost[perm[k]]]
        m(n) == [k \in 1..Len(perm) |-> (n \div nst[k]) % sh[k]]
    IN  [shape |-> sh,
         data |-> [n \in 1..Len(t.data) |-> t.data[Dot(m(n - 1), pst, 1) + 1]]]

\* x.flatten(a, b): dimensions a..b (0-based, inclusive) merged into one
Flatten(t, a, b) ==
    [shape |-> SubSeq(t.shape, 1, a) \o <<Prod(SubSeq(t.shape, a + 1, b + 1))>>
                 \o SubSeq(t.shape, b + 2, Len(t.shape)),
     data |-> t.data]

\* the shape of line 96
GridShape(sh, p) == <<sh[1], sh[2], sh[3] \div p, p, sh[4] \div p, p>>

PatchPerm_ColumnMajor == <<1, 5, 3, 2, 4, 6>>

\* line 98: x.permute(0, 2, 4, 1, 3, 5)
PatchPerm == <<1, 3, 5, 2, 4, 6>>

\* img_to_patch, lines 94-104
ImgToPatch(x, p, flatten_channels) ==
    LET r == Reshape(x, GridShape(x.shape, p))
        m == Permute(r, PatchPerm)
        f == Flatten(m, 1, 2)
    IN  IF flatten_channels THEN Flatten(f, 2, 4) ELSE f

\* a tensor of the given shape whose elements are their own flat offsets
Labelled(sh) == [shape |-> sh, data |-> [n \in 1..Prod(sh) |-> n - 1]]

Init2 ==
    /\ raisedAt = 0
    /\ valDone = 0
    /\ program = "vit"
    /\ pc = "train2"
    /\ fs = NoFiles
    /\ Idle1
    /\ numSaves = 0
    /\ lastSave = <<-1, None>>
    /\ minSeen = BestVlossInit
    /\ minEpoch = -1
    /\ epoch = 0
    /\ params = 0
    /\ lossi = 0
    /\ last_epoch = 0
    /\ lr = base_lr
    /\ avg_vloss = 0
    /\ best_vloss = BestVlossInit
    /\ model_path = None
    /\ plotRows = -1
    /\ evalParams = -1
    /\ vizPatches = <<>>
    /\ IdleP

\* lines 250-266: one pass over train_loader; every batch appends one loss
\* to lossi and takes one optimizer step.
TrainEpoch2 ==
    /\ program = "vit" /\ pc = "train2"
    /\ lossi' = lossi + BatchCount(train_size, batch_size)
    /\ params' = params + BatchCount(train_size, batch_size)
    /\ pc' = "sched"
    /\ UNCHANGED <<program, fs, epoch, last_epoch, lr, avg_vloss, best_vloss,
                   model_path, plotRows, evalParams, vizPatches>>
    /\ UNCHANGED vars1 /\ UNCHANGED varsP
    /\ UNCHANGED varsG

\* line 269: model_scheduler.step()
StepScheduler ==
    /\ program = "vit" /\ pc = "sched"
    /\ last_epoch' = last_epoch + 1
    /\ lr' = LrAt(last_epoch + 1)
    /\ pc' = "validate2"
    /\ UNCHANGED <<program, fs, epoch, params, lossi, avg_vloss, best_vloss,
                   model_path, plotRows, evalParams, vizPatches>>
    /\ UNCHANGED vars1 /\ UNCHANGED varsP
    /\ UNCHANGED varsG

\* lines 270-285: the validation pass and its mean loss
Validate2 ==
    /\ program = "vit" /\ pc = "validate2"
    /\ \E loss \in Losses2 :
          /\ avg_vloss' = loss
          /\ IF loss < minSeen
             THEN minSeen' = loss /\ minEpoch' = epoch
             ELSE UNCHANGED <<minSeen, minEpoch>>
    /\ pc' = "checkpoint2"
    /\ UNCHANGED <<program, fs, epoch, params, lossi, last_epoch, lr, best_vloss,
                   model_path, plotRows, evalParams, vizPatches>>
    /\ UNCHANGED <<test_model, train_model, mainCalls, mainArg, model_name,
                   weights, best_loss, epoch_i, batch, epoch_loss_val, final_name,
                   loaded, loads, numSaves, lastSave, trial, dec_j, cpu_src, tgt,
                   pred, modelCalls, lastInp>>
    /\ UNCHANGED varsP
    /\ valDone' = valDone + 1
    /\ UNCHANGED raisedAt

\* lines 288-291 and the loop header of line 249
Checkpoint2 ==
    /\ program = "vit" /\ pc = "checkpoint2"
    /\ IF Improves2(avg_vloss, best_vloss)
       THEN /\ best_vloss' = avg_vloss
            /\ model_path' = CkptName2(epoch)
            /\ fs' = Saved(fs, CkptName2(epoch), <<0, params>>)
            /\ numSaves' = numSaves + 1
            /\ lastSave' = <<epoch, CkptName2(epoch)>>
       ELSE UNCHANGED <<best_vloss, model_path, fs, numSaves, lastSave>>
    /\ epoch' = epoch + 1
    /\ pc' = IF epoch + 1 < epochs2 THEN "train2" ELSE "plot"
    /\ UNCHANGED <<program, params, lossi, last_epoch, lr, avg_vloss,
                   plotRows, evalParams, vizPatches>>
    /\ UNCHANGED <<test_model, train_model, mainCalls, mainArg, model_name,
                   weights, best_loss, epoch_i, batch, epoch_loss_val, final_name,
                   loaded, loads, minSeen, minEpoch, trial, dec_j, cpu_src, tgt,
                   pred, modelCalls, lastInp>>
    /\ UNCHANGED varsP
    /\ UNCHANGED varsG

\* lines 293-298: view(-1, 3) raises unless the number of entries is a
\* multiple of 3; otherwise every row holds 3 consecutive entries.
PlotLoss ==
    /\ program = "vit" /\ pc = "plot"
    /\ plotRows' = IF lossi % view_cols = 0 THEN lossi \div view_cols ELSE plotRows
    /\ pc' = RaiseOr(lossi % view_cols = 0, "test2")
    /\ raisedAt' = IF pc' = "error" THEN 297 ELSE raisedAt
    /\ UNCHANGED <<program, fs, epoch, params, lossi, last_epoch, lr, avg_vloss,
                   best_vloss, model_path, evalParams, vizPatches>>
    /\ UNCHANGED vars1 /\ UNCHANGED varsP
    /\ UNCHANGED valDone

TestEval_BestCheckpoint ==
    /\ UNCHANGED varsG
    /\ program = "vit" /\ pc = "test2"
    /\ evalParams' = IF CanLoad(model_path) THEN fs[model_path][2] ELSE params
    /\ pc' = "visualize"
    /\ UNCHANGED <<program, fs, epoch, params, lossi, last_epoch, lr, avg_vloss,
                   best_vloss, model_path, plotRows, vizPatches>>
    /\ UNCHANGED vars1 /\ UNCHANGED varsP

\* lines 300-313: accuracy of `model` (the object trained above) on test_loader
TestEval ==
    /\ program = "vit" /\ pc = "test2"
    /\ evalParams' = params
    /\ pc' = "visualize"
    /\ UNCHANGED <<program, fs, epoch, params, lossi, last_epoch, lr, avg_vloss,
                   best_vloss, model_path, plotRows, vizPatches>>
    /\ UNCHANGED vars1 /\ UNCHANGED varsP
    /\ UNCHANGED varsG

\* lines 318-321: patches_k = img_to_patch(img_tensor_k.unsqueeze(0).unsqueeze(0),
\* patch_size), the image being one 28x28 MNIST test sample
patches_k == ImgToPatch(Labelled(<<1, 1, image_size, image_size>>), patch_size, TRUE)

\* lines 318-334: patches of one test image; the reshape of line 334 raises
\* unless the element counts agree.
Visualize ==
    /\ program = "vit" /\ pc = "visualize"
    /\ vizPatches' = patches_k.shape
    /\ pc' = RaiseOr(Prod(patches_k.shape)
                       = num_patches * num_channels * patch_size * patch_size,
                     "done")
    /\ raisedAt' = IF pc' = "error" THEN 334 ELSE raisedAt
    /\ UNCHANGED <<program, fs, epoch, params, lossi, last_epoch, lr, avg_vloss,
                   best_vloss, model_path, plotRows, evalParams>>
    /\ UNCHANGED vars1 /\ UNCHANGED varsP
    /\ UNCHANGED valDone

Next2 ==
    \/ TrainEpoch2
    \/ StepScheduler
    \/ Validate2
    \/ Checkpoint2
    \/ PlotLoss
    \/ TestEval
    \/ Visualize

Spec2 == Init2 /\ [][Next2]_vars

(***************************************************************************)
(* Properties of Script 2                                                  *)
(***************************************************************************)
AfterTraining2 == pc \in {"plot", "test2", "visualize", "done"}
                    \/ raisedAt \in {297, 334}

\* C4: 20 epochs, each a full training pass (ceil(50000 / 32) = 1563
\* optimizer steps), then one scheduler step, then one validation pass;
\* the test evaluation runs after the 20th epoch, on the parameters left by
\* the last training step, whatever checkpoint was saved last.
C4_OrderAndFinalParams ==
    program = "vit" =>
      /\ epoch <= epochs2
      /\ (pc = "train2" =>
            /\ epoch < epochs2
            /\ params = epoch * 1563 /\ last_epoch = epoch /\ valDone = epoch)
      /\ (pc = "sched" =>
            params = (epoch + 1) * 1563 /\ last_epoch = epoch /\ valDone = epoch)
      /\ (pc = "validate2" =>
            /\ params = (epoch + 1) * 1563
            /\ last_epoch = epoch + 1 /\ valDone = epoch)
      /\ (pc = "checkpoint2" =>
            /\ params = (epoch + 1) * 1563
            /\ last_epoch = epoch + 1 /\ valDone = epoch + 1)
      /\ (AfterTraining2 =>
            /\ epoch = epochs2 /\ last_epoch = epochs2 /\ valDone = epochs2
            /\ params = epochs2 * 1563)
      /\ (~AfterTraining2 \/ pc \in {"plot", "test2"} => evalParams = -1)
      /\ (pc \in {"visualize", "done"} \/ raisedAt = 334 =>
            evalParams = epochs2 * 1563)

C4_Witness ==
    /\ program = "vit" /\ pc = "done"
    /\ numSaves > 0 /\ lastSave[1] < epochs2 - 1
    /\ fs[model_path][2] # evalParams

\* C8 as stated: the learning rate is decayed by 0.1 on the 100th and on the
\* 150th epoch of the training loop, so that when the loop has ended the
\* learning rate is 0.01 times the initial one.
C8_LrDecayedTwice ==
    (program = "vit" /\ AfterTraining2) => lr * 100 = base_lr

\* C9: one loss per training batch, 20 * 1563 = 31260 in all, a multiple of
\* 3, so view(-1, 3) does not raise and its rows hold every entry once.
C9_LossGroupsOfThree ==
    program = "vit" =>
      /\ lossi = params
      /\ (AfterTraining2 =>
            /\ lossi = 20 * 1563
            /\ lossi % 3 = 0)
      /\ raisedAt # 297
      /\ (pc \in {"test2", "visualize", "done"} => plotRows * 3 = lossi)

C9_Witness ==
    program = "vit" /\ pc = "test2" /\ plotRows = 10420 /\ lossi = 31260

(***************************************************************************)
(* img_to_patch on its own, step by step (lines 94-104)                    *)
(***************************************************************************)
PatchSizes == {2, 3, patch_size}

InitP ==
    /\ raisedAt = 0
    /\ valDone = 0
    /\ program = "patch"
    /\ pc = "p_entry"
    /\ fs = NoFiles
    /\ Idle1
    /\ numSaves = 0
    /\ lastSave = <<-1, None>>
    /\ minSeen = 0
    /\ minEpoch = -1
    /\ Idle2
    /\ psize \in PatchSizes
    /\ pflat \in BOOLEAN
    /\ \E B \in 1..MaxB, C \in 1..MaxC, gh \in 1..MaxGrid, gw \in 1..MaxGrid :
          pin = Labelled(<<B, C, gh * psize, gw * psize>>)
    /\ px = pin

\* line 96 (B, C, H, W are the dimensions of the input, line 94)
PatchReshape ==
    /\ program = "patch" /\ pc = "p_entry"
    /\ px' = Reshape(px, GridShape(pin.shape, psize))
    /\ pc' = "p_reshaped"
    /\ UNCHANGED <<program, fs, pin, psize, pflat>>
    /\ UNCHANGED vars1 /\ UNCHANGED vars2
    /\ UNCHANGED varsG

\* line 98
PatchPermute ==
    /\ program = "patch" /\ pc = "p_reshaped"
    /\ px' = Permute(px, PatchPerm)
    /\ pc' = "p_permuted"
    /\ UNCHANGED <<program, fs, pin, psize, pflat>>
    /\ UNCHANGED vars1 /\ UNCHANGED vars2
    /\ UNCHANGED varsG

\* lines 100-101
PatchFlattenGrid ==
    /\ program = "patch" /\ pc = "p_permuted"
    /\ px' = Flatten(px, 1, 2)
    /\ pc' = IF pflat THEN "p_grid" ELSE "p_return"
    /\ UNCHANGED <<program, fs, pin, psize, pflat>>
    /\ UNCHANGED vars1 /\ UNCHANGED vars2
    /\ UNCHANGED varsG

\* line 103
PatchFlattenChannels ==
    /\ program = "patch" /\ pc = "p_grid"
    /\ px' = Flatten(px, 2, 4)
    /\ pc' = "p_return"
    /\ UNCHANGED <<program, fs, pin, psize, pflat>>
    /\ UNCHANGED vars1 /\ UNCHANGED vars2
    /\ UNCHANGED varsG

\* line 104
PatchReturn ==
    /\ program = "patch" /\ pc = "p_return"
    /\ pc' = "done"
    /\ UNCHANGED <<program, fs>>
    /\ UNCHANGED varsP /\ UNCHANGED vars1 /\ UNCHANGED vars2
    /\ UNCHANGED varsG

NextP ==
    \/ PatchReshape
    \/ PatchPermute
    \/ PatchFlattenGrid
    \/ PatchFlattenChannels
    \/ PatchReturn

SpecPatch == InitP /\ [][NextP]_vars

\* C6: with flatten_channels the result has shape [B, (H/p)*(W/p), C*p*p],
\* its element [b, r*(W/p)+q, c*p*p + i*p + j] is x[b, c, r*p+i, q*p+j], and
\* the elements of x (all distinct here) each occur exactly once in it; a
\* 28x28 single-channel image with p = 7 gives num_patches patches of 49.
C6_PatchLayout ==
    (program = "patch" /\ pflat /\ pc \in {"p_return", "done"}) =>
      LET B == pin.shape[1]
          C == pin.shape[2]
          H == pin.shape[3]
          W == pin.shape[4]
          p == psize
          gh == H \div p
          gw == W \div p
      IN  /\ px.shape = <<B, gh * gw, C * p * p>>
          /\ Len(px.data) = B * C * H * W
          /\ \A b \in 0..(B - 1), c \in 0..(C - 1), r \in 0..(gh - 1),
                q \in 0..(gw - 1), i \in 0..(p - 1), j \in 0..(p - 1) :
                px.data[(b * (gh * gw) + r * gw + q) * (C * p * p)
                          + c * p * p + i * p + j + 1]
                  = pin.data[((b * C + c) * H + r * p + i) * W + q * p + j + 1]
          /\ {px.data[n] : n \in 1..Len(px.data)} = {pin.data[n] : n \in 1..Len(pin.data)}
          /\ Cardinality({pin.data[n] : n \in 1..Len(pin.data)}) = Len(px.data)
          /\ (pin.shape = <<B, num_channels, image_size, image_size>> /\ p = patch_size =>
                px.shape[2] = num_patches /\ px.shape[3] = 49 /\ gh * gw = 16)

C6_Witness ==
    /\ program = "patch" /\ pc = "done" /\ pflat
    /\ pin.shape = <<2, 1, 28, 28>> /\ psize = 7
    /\ px.shape = <<2, 16, 49>>

(***************************************************************************)
(* Both scripts: a run is a run of one of them.                            *)
(***************************************************************************)
Init == Init1 \/ Init2

Next == Next1 \/ Next2

Spec == Init /\ [][Next]_vars

Min(a, b) == IF a < b THEN a ELSE b

\* C2: in both scripts the checkpoint step saves if and only if the epoch's
\* validation loss is strictly below the best loss so far, and then sets
\* the best loss to it; the best loss is the minimum of its initial value
\* and the validation losses observed, and never increases.  Script 1 names
\* the file by the loss rounded to 5 decimals (a multiple n of 1e-5 with
\* |n - loss| <= 0.5e-5), Script 2 by the 1-based epoch number.
C2_SaveIffImproved ==
    /\ [](program = "demo01" =>
          /\ (pc \in {"train", "validate", "main_return"} => best_loss = minSeen)
          /\ (pc = "checkpoint" => minSeen = Min(best_loss, epoch_loss_val))
          /\ (InMain => best_loss <= BestLossInit1))
    /\ [](program = "vit" =>
          /\ (pc # "checkpoint2" => best_vloss = minSeen)
          /\ (pc = "checkpoint2" => minSeen = Min(best_vloss, avg_vloss))
          /\ best_vloss <= BestVlossInit)
    /\ [][(program = "demo01" /\ pc = "checkpoint") =>
            /\ best_loss' <= best_loss
            /\ (numSaves' = numSaves + 1 <=> epoch_loss_val < best_loss)
            /\ (numSaves' = numSaves + 1 =>
                  LET path == lastSave'[2]
                  IN  /\ lastSave'[1] = epoch_i
                      /\ path[1] = "ckpt"
                      /\ 10 * path[2] - 5 <= epoch_loss_val
                      /\ epoch_loss_val <= 10 * path[2] + 5
                      /\ best_loss' = epoch_loss_val
                      /\ model_name' = path
                      /\ DOMAIN fs' = DOMAIN fs \cup {path}
                      /\ fs'[path] = weights
                      /\ \A q \in DOMAIN fs \ {path} : fs'[q] = fs[q])
            /\ (numSaves' # numSaves + 1 =>
                  /\ numSaves' = numSaves /\ fs' = fs
                  /\ best_loss' = best_loss /\ model_name' = model_name)]_vars
    /\ [][(program = "vit" /\ pc = "checkpoint2") =>
            /\ best_vloss' <= best_vloss
            /\ (numSaves' = numSaves + 1 <=> avg_vloss < best_vloss)
            /\ (numSaves' = numSaves + 1 =>
                  /\ lastSave' = <<epoch, <<"vit", epoch + 1>>>>
                  /\ epoch + 1 \in 1..epochs2
                  /\ best_vloss' = avg_vloss
                  /\ model_path' = <<"vit", epoch + 1>>
                  /\ DOMAIN fs' = DOMAIN fs \cup {model_path'}
                  /\ fs'[model_path'] = <<0, params>>
                  /\ \A q \in DOMAIN fs : fs'[q] = fs[q])
            /\ (numSaves' # numSaves + 1 =>
                  /\ numSaves' = numSaves /\ fs' = fs
                  /\ best_vloss' = best_vloss /\ model_path' = model_path)]_vars
    /\ [][program = "vit" => best_vloss' <= best_vloss]_vars
    /\ [][(program = "demo01" /\ InMain /\ pc # "main_return") =>
            best_loss' <= best_loss]_vars

C2_Witness ==
    /\ program = "vit" /\ pc = "train2"
    /\ numSaves = 2 /\ model_path = <<"vit", epoch>>
    /\ best_vloss < BestVlossInit

====
